---- MODULE Spec2Model ----
(***************************************************************************)
(* Model of pkg/client/client.go: the Kubernetes REST client.              *)
(*                                                                         *)
(* Strings and byte slices are sequences of one-character strings.  A Go   *)
(* pointer or interface that may be nil is a sequence of length 0 (nil)    *)
(* or 1 (the value).  A nil []byte and an empty []byte are both the empty  *)
(* sequence (they compare equal under bytes.Equal).                        *)
(*                                                                         *)
(* Each call of a method is one action.  What the client cannot decide     *)
(* (the transport's answer, the decoder's verdict, Go's map iteration      *)
(* order) is an input of the action.  The variables hold the client and    *)
(* the record of the latest call.                                          *)
(***************************************************************************)
EXTENDS Integers, Sequences, FiniteSets, TLC

VARIABLES
  host,     \* Client.host
  auth,     \* Client.auth: <<>> (nil) or <<[User, Password]>>
  op,       \* name of the latest call, "idle" when none is on record
  arg,      \* its arguments
  sent,     \* requests handed to httpClient.Do during the call, in order
  events,   \* the calls the method made on its collaborators, in order
  resp,     \* <<>> or <<[status, body]>>, the response the transport gave
  retBody,  \* the []byte it returned (rawRequest's first result)
  retErr,   \* the error it returned
  out       \* the typed result (facade), or the codec's output

vars == <<host, auth, op, arg, sent, events, resp, retBody, retErr, out>>

----------------------------------------------------------------------------
(* Bounds *)

MaxBody == 2     \* longest response body
MaxLen == 5      \* longest wire selector given to DecodeSelector

----------------------------------------------------------------------------
(* Values *)

StatusOK == 200
StatusPartialContent == 206

StatusCodes == (199 .. 207) \cup {100, 302, 404, 500}

ByteAlphabet == {"x", "y"}
Bodies == UNION {[1 .. n -> ByteAlphabet] : n \in 0 .. MaxBody}

WireAlphabet == {"a", "b", "1", "=", ","}
Wires == UNION {[1 .. n -> WireAlphabet] : n \in 0 .. MaxLen}

Hosts == {<<"h">>}
AuthInfos == {[User |-> "u", Password |-> "p"]}

\* names and IDs; "%" is not a valid URL escape
Names == {<<"n">>, <<>>, <<"%">>}
Paths == {<<"p">>, <<"%">>, <<"p", "?", "%">>}
Methods == {"GET", "POST", "PUT", "DELETE"}

SelKeys == {<<"a">>, <<"b">>}
SelVals == {<<"1">>, <<>>, <<"2", " ">>, <<",">>}

NoErr == [kind |-> "nil"]

EmptyMap == [k \in {} |-> <<>>]

\* a selector argument: <<>> is the nil map, <<m>> the map m
Selectors == {<<>>} \cup {<<m>> : m \in UNION {[D -> SelVals] : D \in SUBSET SelKeys}}

\* the orders in which a range loop may visit the keys of m
Orders(m) ==
  {o \in [1 .. Cardinality(DOMAIN m) -> DOMAIN m] : \A i, j \in DOMAIN o : i # j => o[i] # o[j]}

\* api.Pod, api.ReplicationController, api.Service as far as the client
\* looks: the ID, and whether json.Marshal accepts the value
Objects == [ID : Names, encodable : BOOLEAN]

\* what the transport and the decoder do during one call
Envs ==
  {e \in [transportErr : BOOLEAN, status : StatusCodes, body : Bodies,
          readErr : BOOLEAN, readN : 0 .. MaxBody, decodeErr : BOOLEAN] :
     /\ e.readN <= Len(e.body)
     /\ ~e.readErr => e.readN = Len(e.body)}

----------------------------------------------------------------------------
(* Strings *)

RECURSIVE Join(_, _)
Join(parts, sep) ==
  IF Len(parts) = 0 THEN <<>>
  ELSE IF Len(parts) = 1 THEN parts[1]
  ELSE parts[1] \o sep \o Join(Tail(parts), sep)

\* strings.Split(s, sep) for a one-character sep: one piece more than
\* there are separators
RECURSIVE Split(_, _)
Split(s, sep) ==
  IF \A i \in 1 .. Len(s) : s[i] # sep THEN <<s>>
  ELSE LET i == CHOOSE j \in 1 .. Len(s) :
                  s[j] = sep /\ \A k \in 1 .. (j - 1) : s[k] # sep
       IN <<SubSeq(s, 1, i - 1)>> \o Split(SubSeq(s, i + 1, Len(s)), sep)

HexDigits == {"0", "1", "2", "3", "4", "5", "6", "7", "8", "9",
              "A", "B", "C", "D", "E", "F", "a", "b", "c", "d", "e", "f"}

Unreserved == {"a", "b", "n", "p", "h", "1", "2", "x", "y"}

HexCode(ch) ==
  CASE ch = "=" -> <<"%", "3", "D">>
    [] ch = "," -> <<"%", "2", "C">>
    [] ch = "%" -> <<"%", "2", "5">>
    [] ch = "/" -> <<"%", "2", "F">>
    [] ch = "?" -> <<"%", "3", "F">>

\* url.QueryEscape
RECURSIVE QueryEscape(_)
QueryEscape(s) ==
  IF s = <<>> THEN <<>>
  ELSE (IF Head(s) \in Unreserved THEN <<Head(s)>>
        ELSE IF Head(s) = " " THEN <<"+">>
        ELSE HexCode(Head(s))) \o QueryEscape(Tail(s))

\* url.Parse inside http.NewRequest: the part before the first "?" must
\* hold only well-formed percent escapes; the query is kept raw
ValidURL(u) ==
  LET p == Split(u, "?")[1]
  IN \A i \in 1 .. Len(p) :
       p[i] = "%" => /\ i + 2 <= Len(p)
                     /\ p[i + 1] \in HexDigits
                     /\ p[i + 2] \in HexDigits

ApiPrefix == <<"/", "a", "p", "i", "/", "v", "1", "b", "e", "t", "a", "1", "/">>
PodsPath == <<"p", "o", "d", "s">>
ControllersPath == <<"r", "e", "p", "l", "i", "c", "a", "t", "i", "o", "n",
                     "C", "o", "n", "t", "r", "o", "l", "l", "e", "r", "s">>
ServicesPath == <<"s", "e", "r", "v", "i", "c", "e", "s">>
Slash == <<"/">>
LabelsQuery == <<"?", "l", "a", "b", "e", "l", "s", "=">>

----------------------------------------------------------------------------
(* Selector codec *)

\* EncodeSelector before the escaping: the pairs, joined, in the order the
\* range loop visited the keys
JoinSelector(selector, order) ==
  LET parts == [i \in 1 .. Len(order) |-> order[i] \o <<"=">> \o selector[order[i]]]
  IN Join(parts, <<",">>)

\* a bug: the joined pairs are returned without escaping
EncodeSelector_raw(selector, order) == JoinSelector(selector, order)

EncodeSelector(selector, order) == QueryEscape(JoinSelector(selector, order))

\* a bug: a part with more than two pieces is accepted
RECURSIVE DecodeParts_atLeastTwo(_, _)
DecodeParts_atLeastTwo(parts, result) ==
  IF parts = <<>> THEN result
  ELSE LET pieces == Split(Head(parts), "=")
       IN DecodeParts_atLeastTwo(Tail(parts),
                                 IF Len(pieces) >= 2
                                 THEN (pieces[1] :> pieces[2]) @@ result
                                 ELSE result)

\* the loop of DecodeSelector over the parts: a later part overwrites the
\* entry of an earlier one with the same key
RECURSIVE DecodeParts(_, _)
DecodeParts(parts, result) ==
  IF parts = <<>> THEN result
  ELSE LET pieces == Split(Head(parts), "=")
       IN DecodeParts(Tail(parts),
                      IF Len(pieces) = 2
                      THEN (pieces[1] :> pieces[2]) @@ result
                      ELSE result)

DecodeSelector(selector) ==
  IF Len(selector) = 0 THEN EmptyMap
  ELSE DecodeParts(Split(selector, ","), EmptyMap)

----------------------------------------------------------------------------
(* Transport core *)

makeURL(h, path) == h \o ApiPrefix \o path

\* http.NewRequest
NewRequest(method, url, requestBody) ==
  IF ValidURL(url)
  THEN [request |-> <<[method |-> method, url |-> url, body |-> requestBody,
                       authorization |-> <<>>]>>,
        err |-> NoErr]
  ELSE [request |-> <<>>, err |-> [kind |-> "url", url |-> url]]

SetBasicAuth(request, user, password) ==
  [request EXCEPT !.authorization = <<[User |-> user, Password |-> password]>>]

\* doRequest, the first statement: the request as handed to httpClient.Do
Authenticate_never(a, request) == request

Authenticate(a, request) ==
  IF a # <<>> THEN SetBasicAuth(request, a[1].User, a[1].Password) ELSE request

\* doRequest, the condition on response.StatusCode
IsFailureStatus_offByOne(code) == code < StatusOK \/ code >= StatusPartialContent

IsFailureStatus(code) == code < StatusOK \/ code > StatusPartialContent

\* the error doRequest builds for a failure status: the format arguments
StatusError_noBody(request, code, body) ==
  [kind |-> "status", request |-> request, code |-> code, body |-> <<>>]

StatusError(request, code, body) ==
  [kind |-> "status", request |-> request, code |-> code, body |-> body]

\* a bug: the request is sent again when the transport fails
doRequest_retry(a, request0, env) ==
  LET request == Authenticate(a, request0)
      body == SubSeq(env.body, 1, env.readN)
      response == [status |-> env.status, body |-> env.body]
  IN IF env.transportErr
     THEN [body |-> <<>>, err |-> [kind |-> "transport"],
           sent |-> <<request, request>>, events |-> <<"Do", "Do">>, resp |-> <<>>]
     ELSE IF env.readErr
     THEN [body |-> body, err |-> [kind |-> "read"], sent |-> <<request>>,
           events |-> <<"Do", "ReadAll", "Close">>, resp |-> <<response>>]
     ELSE IF IsFailureStatus(env.status)
     THEN [body |-> <<>>, err |-> StatusError(request, env.status, body),
           sent |-> <<request>>, events |-> <<"Do", "ReadAll", "Close">>,
           resp |-> <<response>>]
     ELSE [body |-> body, err |-> NoErr, sent |-> <<request>>,
           events |-> <<"Do", "ReadAll", "Close">>, resp |-> <<response>>]

\* a bug: Close is called at the end instead of deferred, so the early
\* returns skip it
doRequest_noDefer(a, request0, env) ==
  LET request == Authenticate(a, request0)
      body == SubSeq(env.body, 1, env.readN)
      response == [status |-> env.status, body |-> env.body]
  IN IF env.transportErr
     THEN [body |-> <<>>, err |-> [kind |-> "transport"], sent |-> <<request>>,
           events |-> <<"Do">>, resp |-> <<>>]
     ELSE IF env.readErr
     THEN [body |-> body, err |-> [kind |-> "read"], sent |-> <<request>>,
           events |-> <<"Do", "ReadAll">>, resp |-> <<response>>]
     ELSE IF IsFailureStatus(env.status)
     THEN [body |-> <<>>, err |-> StatusError(request, env.status, body),
           sent |-> <<request>>, events |-> <<"Do", "ReadAll">>,
           resp |-> <<response>>]
     ELSE [body |-> body, err |-> NoErr, sent |-> <<request>>,
           events |-> <<"Do", "ReadAll", "Close">>, resp |-> <<response>>]

\* env.transportErr: httpClient.Do fails.  Otherwise it gives a response
\* with env.status and env.body; ReadAll gets the first env.readN bytes and,
\* when env.readErr, an error.  The deferred Close runs on every return
\* after the response was obtained.
doRequest(a, request0, env) ==
  LET request == Authenticate(a, request0)
      body == SubSeq(env.body, 1, env.readN)
      response == [status |-> env.status, body |-> env.body]
  IN IF env.transportErr
     THEN [body |-> <<>>, err |-> [kind |-> "transport"], sent |-> <<request>>,
           events |-> <<"Do">>, resp |-> <<>>]
     ELSE IF env.readErr
     THEN [body |-> body, err |-> [kind |-> "read"], sent |-> <<request>>,
           events |-> <<"Do", "ReadAll", "Close">>, resp |-> <<response>>]
     ELSE IF IsFailureStatus(env.status)
     THEN [body |-> <<>>, err |-> StatusError(request, env.status, body),
           sent |-> <<request>>, events |-> <<"Do", "ReadAll", "Close">>,
           resp |-> <<response>>]
     ELSE [body |-> body, err |-> NoErr, sent |-> <<request>>,
           events |-> <<"Do", "ReadAll", "Close">>, resp |-> <<response>>]

\* a bug: the bytes are dropped when the decoder fails
decodeResponse_dropBody(body, target, env) ==
  IF target
  THEN [body |-> IF env.decodeErr THEN <<>> ELSE body,
        err |-> IF env.decodeErr THEN [kind |-> "decode"] ELSE NoErr,
        events |-> <<"DecodeInto">>,
        result |-> IF env.decodeErr THEN <<>> ELSE <<body>>]
  ELSE [body |-> body, err |-> NoErr, events |-> <<>>, result |-> <<>>]

\* rawRequest after doRequest succeeded.  target is TRUE when a non-nil
\* target is given; result is what the target holds afterwards: <<>>
\* untouched, <<body>> decoded from body.  env.decodeErr: api.DecodeInto
\* fails.
decodeResponse(body, target, env) ==
  IF target
  THEN [body |-> body,
        err |-> IF env.decodeErr THEN [kind |-> "decode"] ELSE NoErr,
        events |-> <<"DecodeInto">>,
        result |-> IF env.decodeErr THEN <<>> ELSE <<body>>]
  ELSE [body |-> body, err |-> NoErr, events |-> <<>>, result |-> <<>>]

rawRequest(h, a, method, path, requestBody, target, env) ==
  LET nr == NewRequest(method, makeURL(h, path), requestBody)
  IN IF nr.err # NoErr
     THEN [body |-> <<>>, err |-> nr.err, sent |-> <<>>,
           events |-> <<"NewRequest">>, resp |-> <<>>, result |-> <<>>]
     ELSE LET d == doRequest(a, nr.request[1], env)
          IN IF d.err # NoErr
             THEN [body |-> d.body, err |-> d.err, sent |-> d.sent,
                   events |-> <<"NewRequest">> \o d.events, resp |-> d.resp,
                   result |-> <<>>]
             ELSE LET r == decodeResponse(d.body, target, env)
                  IN [body |-> r.body, err |-> r.err, sent |-> d.sent,
                      events |-> <<"NewRequest">> \o d.events \o r.events,
                      resp |-> d.resp, result |-> r.result]

\* json.Marshal
JsonMarshal(obj) ==
  IF obj.encodable
  THEN [body |-> <<"{">> \o obj.ID \o <<"}">>, err |-> NoErr]
  ELSE [body |-> <<>>, err |-> [kind |-> "encode"]]

----------------------------------------------------------------------------
(* Calls *)

\* the record of a call that went through rawRequest
Returned(name, a, r) ==
  /\ op' = name
  /\ arg' = a
  /\ sent' = r.sent
  /\ events' = r.events
  /\ resp' = r.resp
  /\ retBody' = r.body
  /\ retErr' = r.err
  /\ out' = r.result
  /\ UNCHANGED <<host, auth>>

\* the record of a Create/Update whose json.Marshal failed
NotSent(name, a, err) ==
  /\ op' = name
  /\ arg' = a
  /\ sent' = <<>>
  /\ events' = <<"Marshal">>
  /\ resp' = <<>>
  /\ retBody' = <<>>
  /\ retErr' = err
  /\ out' = <<>>
  /\ UNCHANGED <<host, auth>>

\* a bug: the request goes out whether or not json.Marshal failed
Marshalled_sendAnyway(name, obj, method, path, env) ==
  LET m == JsonMarshal(obj)
      r == rawRequest(host, auth, method, path, <<m.body>>, TRUE, env)
  IN Returned(name, [obj |-> obj],
              [r EXCEPT !.events = <<"Marshal">> \o r.events,
                        !.err = IF m.err = NoErr THEN r.err ELSE m.err])

\* the pattern of the Create and Update methods
Marshalled(name, obj, method, path, env) ==
  LET m == JsonMarshal(obj)
  IN IF m.err = NoErr
     THEN LET r == rawRequest(host, auth, method, path, <<m.body>>, TRUE, env)
          IN Returned(name, [obj |-> obj],
                      [r EXCEPT !.events = <<"Marshal">> \o r.events])
     ELSE NotSent(name, [obj |-> obj], m.err)

Execute ==
  /\ op = "idle"
  /\ \E method \in Methods, path \in Paths, requestBody \in {<<>>, <<<<"x">>>>},
        target \in BOOLEAN, env \in Envs :
       Returned("Execute",
                [method |-> method, path |-> path, body |-> requestBody, target |-> target],
                rawRequest(host, auth, method, path, requestBody, target, env))

\* a bug: the query is appended for an empty selector as well
ListPodsPath_always(selector, order) ==
  IF selector # <<>>
  THEN PodsPath \o LabelsQuery \o EncodeSelector(selector[1], order)
  ELSE PodsPath

ListPodsPath(selector, order) ==
  IF selector # <<>> /\ Cardinality(DOMAIN selector[1]) > 0
  THEN PodsPath \o LabelsQuery \o EncodeSelector(selector[1], order)
  ELSE PodsPath

ListPods ==
  /\ op = "idle"
  /\ \E selector \in Selectors, env \in Envs :
       \E order \in (IF selector = <<>> THEN {<<>>} ELSE Orders(selector[1])) :
         Returned("ListPods", [selector |-> selector, order |-> order],
                  rawRequest(host, auth, "GET", ListPodsPath(selector, order), <<>>, TRUE, env))

GetPod ==
  /\ op = "idle"
  /\ \E name \in Names, env \in Envs :
       Returned("GetPod", [name |-> name],
                rawRequest(host, auth, "GET", PodsPath \o Slash \o name, <<>>, TRUE, env))

DeletePod ==
  /\ op = "idle"
  /\ \E name \in Names, env \in Envs :
       Returned("DeletePod", [name |-> name],
                rawRequest(host, auth, "DELETE", PodsPath \o Slash \o name, <<>>, FALSE, env))

CreatePod ==
  /\ op = "idle"
  /\ \E pod \in Objects, env \in Envs :
       Marshalled("CreatePod", pod, "POST", PodsPath, env)

UpdatePod ==
  /\ op = "idle"
  /\ \E pod \in Objects, env \in Envs :
       Marshalled("UpdatePod", pod, "PUT", PodsPath \o Slash \o pod.ID, env)

GetReplicationController ==
  /\ op = "idle"
  /\ \E name \in Names, env \in Envs :
       Returned("GetReplicationController", [name |-> name],
                rawRequest(host, auth, "GET", ControllersPath \o Slash \o name, <<>>, TRUE, env))

CreateReplicationController ==
  /\ op = "idle"
  /\ \E controller \in Objects, env \in Envs :
       Marshalled("CreateReplicationController", controller, "POST", ControllersPath, env)

UpdateReplicationController ==
  /\ op = "idle"
  /\ \E controller \in Objects, env \in Envs :
       Marshalled("UpdateReplicationController", controller, "PUT",
                  ControllersPath \o Slash \o controller.ID, env)

DeleteReplicationController ==
  /\ op = "idle"
  /\ \E name \in Names, env \in Envs :
       Returned("DeleteReplicationController", [name |-> name],
                rawRequest(host, auth, "DELETE", ControllersPath \o Slash \o name, <<>>, FALSE, env))

GetService ==
  /\ op = "idle"
  /\ \E name \in Names, env \in Envs :
       Returned("GetService", [name |-> name],
                rawRequest(host, auth, "GET", ServicesPath \o Slash \o name, <<>>, TRUE, env))

CreateService ==
  /\ op = "idle"
  /\ \E svc \in Objects, env \in Envs :
       Marshalled("CreateService", svc, "POST", ServicesPath, env)

UpdateService ==
  /\ op = "idle"
  /\ \E svc \in Objects, env \in Envs :
       Marshalled("UpdateService", svc, "PUT", ServicesPath \o Slash \o svc.ID, env)

DeleteService ==
  /\ op = "idle"
  /\ \E name \in Names, env \in Envs :
       Returned("DeleteService", [name |-> name],
                rawRequest(host, auth, "DELETE", ServicesPath \o Slash \o name, <<>>, FALSE, env))

\* the record of a call of a codec function
Computed(name, a, result) ==
  /\ op' = name
  /\ arg' = a
  /\ out' = result
  /\ sent' = <<>>
  /\ events' = <<>>
  /\ resp' = <<>>
  /\ retBody' = <<>>
  /\ retErr' = NoErr
  /\ UNCHANGED <<host, auth>>

EncodeSelectorCall ==
  /\ op = "idle"
  /\ \E selector \in Selectors :
       \E order \in (IF selector = <<>> THEN {<<>>} ELSE Orders(selector[1])) :
         Computed("EncodeSelector", [selector |-> selector, order |-> order],
                  EncodeSelector(IF selector = <<>> THEN EmptyMap ELSE selector[1], order))

DecodeSelectorCall ==
  /\ op = "idle"
  /\ \E selector \in Wires :
       Computed("DecodeSelector", [selector |-> selector], DecodeSelector(selector))

New ==
  /\ host \in Hosts
  /\ auth \in {<<>>} \cup {<<a>> : a \in AuthInfos}
  /\ op = "idle"
  /\ arg = <<>>
  /\ sent = <<>>
  /\ events = <<>>
  /\ resp = <<>>
  /\ retBody = <<>>
  /\ retErr = NoErr
  /\ out = <<>>

Init == New

\* the caller has taken the results of the latest call; the client is
\* ready for the next one
Forget ==
  /\ op # "idle"
  /\ op' = "idle"
  /\ arg' = <<>>
  /\ sent' = <<>>
  /\ events' = <<>>
  /\ resp' = <<>>
  /\ retBody' = <<>>
  /\ retErr' = NoErr
  /\ out' = <<>>
  /\ UNCHANGED <<host, auth>>

Next ==
  \/ Execute
  \/ ListPods
  \/ GetPod
  \/ DeletePod
  \/ CreatePod
  \/ UpdatePod
  \/ GetReplicationController
  \/ CreateReplicationController
  \/ UpdateReplicationController
  \/ DeleteReplicationController
  \/ GetService
  \/ CreateService
  \/ UpdateService
  \/ DeleteService
  \/ EncodeSelectorCall
  \/ DecodeSelectorCall
  \/ Forget

Spec == Init /\ [][Next]_vars

----------------------------------------------------------------------------
(* Properties *)

Has(ev) == \E i \in DOMAIN events : events[i] = ev

Count(ev) == Cardinality({i \in DOMAIN events : events[i] = ev})

\* the latest call went through rawRequest (Execute)
ViaRawRequest == Has("NewRequest")

InSuccessRange(code) == code >= 200 /\ code <= 206

CreateUpdateOps ==
  {"CreatePod", "UpdatePod", "CreateReplicationController",
   "UpdateReplicationController", "CreateService", "UpdateService"}

\* C1: when a response was received, a status outside 200..206 gives a
\* non-nil error and no decoding; once the body was read, the call fails
\* with the status error exactly when the status is outside 200..206, and a
\* status inside the range leaves only the decoder to fail.
C1_StatusClassification ==
  resp # <<>> =>
    LET code == resp[1].status
    IN /\ ~InSuccessRange(code) => (retErr # NoErr /\ ~Has("DecodeInto") /\ out = <<>>)
       /\ retErr.kind # "read" => (retErr.kind = "status" <=> ~InSuccessRange(code))
       /\ (InSuccessRange(code) /\ retErr.kind # "read") => retErr.kind \in {"nil", "decode"}
       /\ retErr = NoErr => InSuccessRange(code)

C1_Witness ==
  /\ resp # <<>>
  /\ resp[1].status = 206
  /\ retErr = NoErr
  /\ Has("DecodeInto")

C3_RawBytesSurviveDecoding ==
  (resp # <<>> /\ InSuccessRange(resp[1].status) /\ retErr.kind # "read") =>
    /\ retBody = resp[1].body
    /\ retErr.kind \in {"nil", "decode"}
    /\ retErr.kind = "decode" => (Has("DecodeInto") /\ out = <<>>)
    /\ ~Has("DecodeInto") => (retErr = NoErr /\ out = <<>>)
    /\ (Has("DecodeInto") /\ retErr = NoErr) => out = <<resp[1].body>>
    /\ op = "Execute" => (Has("DecodeInto") <=> arg.target)

C3_Witness ==
  /\ resp # <<>>
  /\ retErr.kind = "decode"
  /\ retBody = <<"x", "y">>

\* C4: a Create or Update whose object json.Marshal rejects returns the
\* encoding error and hands no request to the transport.
C4_EncodeErrorSendsNothing ==
  (op \in CreateUpdateOps /\ ~arg.obj.encodable) =>
    /\ retErr = [kind |-> "encode"]
    /\ sent = <<>>
    /\ ~Has("NewRequest")
    /\ ~Has("Do")
    /\ resp = <<>>

C4_Witness ==
  /\ op = "UpdateService"
  /\ retErr.kind = "encode"
  /\ sent = <<>>

\* C5 as stated: every call of rawRequest makes exactly one round trip.
C5_ExactlyOneRoundTrip ==
  ViaRawRequest => (Count("Do") = 1 /\ Len(sent) = 1)

\* C5 amended: a call of rawRequest makes at most one round trip, and
\* exactly one unless http.NewRequest rejects the URL, in which case none.
C5_AtMostOneRoundTrip ==
  ViaRawRequest =>
    /\ Count("Do") <= 1
    /\ Len(sent) = Count("Do")
    /\ Count("Do") = 1 <=> retErr.kind # "url"
    /\ op = "Execute" =>
         (Count("Do") = 1 <=> ValidURL(host \o ApiPrefix \o arg.path))

C5_Witness ==
  /\ op = "Execute"
  /\ retErr.kind = "transport"
  /\ Count("Do") = 1

\* C8: every request handed to the transport carries the configured user
\* and password when the client has a credential and no authorization when
\* it has none, and no step changes the client's host or credential.
C8_AuthIffCredential ==
  [][/\ host' = host
     /\ auth' = auth
     /\ \A i \in DOMAIN sent' :
          /\ sent'[i].authorization # <<>> <=> auth # <<>>
          /\ auth # <<>> =>
               sent'[i].authorization =
                 <<[User |-> auth[1].User, Password |-> auth[1].Password]>>]_vars

C8_Witness ==
  /\ auth # <<>>
  /\ sent # <<>>
  /\ sent[1].authorization = <<[User |-> "u", Password |-> "p"]>>

\* C9: a response the transport gave is closed exactly once, after the
\* read and before anything rawRequest does next, whatever the outcome; with
\* no response nothing is closed, and a transport failure returns an error,
\* no bytes, and calls no decoder.
C9_BodyClosed ==
  /\ resp # <<>> =>
       /\ Count("Close") = 1
       /\ \A i, j \in DOMAIN events :
            /\ (events[i] = "ReadAll" /\ events[j] = "Close") => i < j
            /\ (events[i] = "Close" /\ events[j] = "DecodeInto") => i < j
  /\ resp = <<>> => ~Has("Close")
  /\ Has("Do") => (resp = <<>> <=> retErr.kind = "transport")
  /\ retErr.kind = "transport" =>
       (retBody = <<>> /\ ~Has("DecodeInto") /\ out = <<>>)

C9_Witness ==
  /\ resp # <<>>
  /\ retErr.kind = "read"
  /\ Has("Close")

\* the selector given to the latest EncodeSelector or ListPods (a nil map
\* ranges like an empty one)
GivenSelector == IF arg.selector = <<>> THEN EmptyMap ELSE arg.selector[1]

NoSeparators(str) == \A i \in DOMAIN str : str[i] \notin {"=", ","}

\* the selectors C6 speaks of
InScope(m) == \A k \in DOMAIN m : NoSeparators(k) /\ NoSeparators(m[k])

\* C6 as stated: decoding the result of EncodeSelector gives the selector
\* back.
C6_RoundTrip ==
  (op = "EncodeSelector" /\ InScope(GivenSelector)) =>
    DecodeSelector(out) = GivenSelector

\* C6 amended: in whatever order the pairs were emitted, decoding the
\* comma-joined pairs that EncodeSelector builds before it URL-escapes them
\* gives the selector back; the result of EncodeSelector is the escaped
\* string, holds no "=" and no ",", and decodes to the empty mapping, which
\* is the selector only when the selector is empty.
C6_RoundTripBeforeEscaping ==
  (op = "EncodeSelector" /\ InScope(GivenSelector)) =>
    /\ DecodeSelector(JoinSelector(GivenSelector, arg.order)) = GivenSelector
    /\ NoSeparators(out)
    /\ DecodeSelector(out) = EmptyMap
    /\ DecodeSelector(out) = GivenSelector <=> GivenSelector = EmptyMap

C6_Witness ==
  /\ op = "EncodeSelector"
  /\ arg.order = <<<<"b">>, <<"a">>>>
  /\ GivenSelector = (<<"a">> :> <<"1">>) @@ (<<"b">> :> <<"2", " ">>)
  /\ out = <<"b", "%", "3", "D", "2", "+", "%", "2", "C", "a", "%", "3", "D", "1">>

\* the positions around the parts of w: before it, after it, and its commas
Cuts(w) == {0, Len(w) + 1} \cup {i \in 1 .. Len(w) : w[i] = ","}

\* the parts of w, each as the pair of cuts around it
Parts(w) ==
  {p \in Cuts(w) \X Cuts(w) :
     p[1] < p[2] /\ \A c \in Cuts(w) : ~(p[1] < c /\ c < p[2])}

EqualsIn(w, p) == {i \in (p[1] + 1) .. (p[2] - 1) : w[i] = "="}

\* the parts with exactly one "=", that is, with exactly two pieces
WellFormed(w) == {p \in Parts(w) : Cardinality(EqualsIn(w, p)) = 1}

KeyOf(w, p) == SubSeq(w, p[1] + 1, (CHOOSE i \in EqualsIn(w, p) : TRUE) - 1)

ValueOf(w, p) == SubSeq(w, (CHOOSE i \in EqualsIn(w, p) : TRUE) + 1, p[2] - 1)

\* C7: DecodeSelector returns a mapping and no error; the empty string
\* gives the empty mapping; the keys of the result are the first pieces of
\* the parts with exactly two pieces, each mapped to the second piece of the
\* last such part with that key; the other parts add nothing.
C7_DecodeSelector ==
  op = "DecodeSelector" =>
    LET w == arg.selector
    IN /\ retErr = NoErr
       /\ w = <<>> => out = EmptyMap
       /\ DOMAIN out = {KeyOf(w, p) : p \in WellFormed(w)}
       /\ \A k \in DOMAIN out :
            \E p \in WellFormed(w) :
              /\ KeyOf(w, p) = k
              /\ out[k] = ValueOf(w, p)
              /\ \A q \in WellFormed(w) : KeyOf(w, q) = k => q[1] <= p[1]

C7_Witness ==
  /\ op = "DecodeSelector"
  /\ arg.selector = <<"a", "=", "1", ",", "b">>
  /\ out = (<<"a">> :> <<"1">>)

FacadeOps ==
  {"ListPods", "GetPod", "DeletePod", "CreatePod", "UpdatePod",
   "GetReplicationController", "CreateReplicationController",
   "UpdateReplicationController", "DeleteReplicationController",
   "GetService", "CreateService", "UpdateService", "DeleteService"}

\* the operation table
Verb(o) ==
  CASE o \in {"ListPods"} -> "List"
    [] o \in {"GetPod", "GetReplicationController", "GetService"} -> "Get"
    [] o \in {"CreatePod", "CreateReplicationController", "CreateService"} -> "Create"
    [] o \in {"UpdatePod", "UpdateReplicationController", "UpdateService"} -> "Update"
    [] o \in {"DeletePod", "DeleteReplicationController", "DeleteService"} -> "Delete"

Plural(o) ==
  CASE o \in {"ListPods", "GetPod", "DeletePod", "CreatePod", "UpdatePod"} ->
         <<"p", "o", "d", "s">>
    [] o \in {"GetReplicationController", "CreateReplicationController",
              "UpdateReplicationController", "DeleteReplicationController"} ->
         <<"r", "e", "p", "l", "i", "c", "a", "t", "i", "o", "n",
           "C", "o", "n", "t", "r", "o", "l", "l", "e", "r", "s">>
    [] o \in {"GetService", "CreateService", "UpdateService", "DeleteService"} ->
         <<"s", "e", "r", "v", "i", "c", "e", "s">>

TableMethod(o) ==
  CASE Verb(o) \in {"List", "Get"} -> "GET"
    [] Verb(o) = "Create" -> "POST"
    [] Verb(o) = "Update" -> "PUT"
    [] Verb(o) = "Delete" -> "DELETE"

TablePath(o) ==
  CASE Verb(o) = "List" ->
         IF GivenSelector = EmptyMap THEN Plural(o)
         ELSE Plural(o) \o <<"?", "l", "a", "b", "e", "l", "s", "=">>
                \o QueryEscape(JoinSelector(GivenSelector, arg.order))
    [] Verb(o) \in {"Get", "Delete"} -> Plural(o) \o <<"/">> \o arg.name
    [] Verb(o) = "Create" -> Plural(o)
    [] Verb(o) = "Update" -> Plural(o) \o <<"/">> \o arg.obj.ID

TableBody(o) ==
  IF Verb(o) \in {"Create", "Update"}
  THEN <<(<<"{">> \o arg.obj.ID \o <<"}">>)>>
  ELSE <<>>

TableURL(o) ==
  host \o <<"/", "a", "p", "i", "/", "v", "1", "b", "e", "t", "a", "1", "/">>
    \o TablePath(o)

\* C10: a facade method hands the transport at most one request, the one of
\* the operation table, and does hand it one when the object encodes and the
\* URL parses; a Delete gives no target to decode into and returns nil when
\* the status is a success.
C10_OperationTable ==
  op \in FacadeOps =>
    /\ Len(sent) <= 1
    /\ sent # <<>> =>
         /\ sent[1].method = TableMethod(op)
         /\ sent[1].url = TableURL(op)
         /\ sent[1].body = TableBody(op)
    /\ ((Verb(op) \in {"Create", "Update"} => arg.obj.encodable)
          /\ ValidURL(TableURL(op))) => Len(sent) = 1
    /\ Verb(op) = "Delete" =>
         /\ ~Has("DecodeInto")
         /\ out = <<>>
         /\ (resp # <<>> /\ InSuccessRange(resp[1].status) /\ retErr.kind # "read")
              => retErr = NoErr

C10_Witness ==
  /\ op = "ListPods"
  /\ arg.selector = <<(<<"a">> :> <<"2", " ">>)>>
  /\ sent # <<>>
  /\ sent[1].method = "GET"
  /\ sent[1].body = <<>>
  /\ sent[1].url = <<"h", "/", "a", "p", "i", "/", "v", "1", "b", "e", "t", "a", "1", "/",
                     "p", "o", "d", "s", "?", "l", "a", "b", "e", "l", "s", "=",
                     "a", "%", "3", "D", "2", "+">>

====
